---- MODULE Spec2Model ----
(***************************************************************************)
(* Model of as2fm/jani_generator/scxml_helpers/scxml_to_jani.py:           *)
(*   - convert_multiple_scxmls_to_jani  (the model assembler)              *)
(*   - preprocess_jani_expressions      (the expression normalizer)        *)
(*   - _preprocess_jani_expression      (recursive rewrite of one tree)    *)
(*   - _preprocess_array_comparison     (array-equality expansion)         *)
(*                                                                         *)
(* JaniExpression objects live in a heap (a sequence of nodes, a node's    *)
(* identity is its index), so that object identity, sharing and in-place   *)
(* mutation (JaniExpression.reset) are visible.                            *)
(***************************************************************************)
EXTENDS Integers, Sequences, FiniteSets, TLC

VARIABLES
    heap,       \* the JaniExpression objects: Seq of nodes, object id = index
    root,       \* SpecExpr: the expression handed to _preprocess_jani_expression
    ctx,        \* SpecExpr: context_vars handed with it
    result,     \* SpecExpr: the returned expression (0: nothing returned)
    err,        \* the error raised by the last call ("none": it returned)
    phase,      \* SpecExpr: "input" before the call, "done" after it
    model,      \* SpecModel: the JaniModel
    runs,       \* SpecModel: number of preprocess_jani_expressions calls made
    prevHeap,   \* SpecModel: heap before the last call
    prevModel,  \* SpecModel: JaniModel before the last call
    pc,         \* SpecAsm: position in convert_multiple_scxmls_to_jani
    scxmls,     \* SpecAsm: the inputs
    trace,      \* SpecAsm: the calls made on the collaborators, in order
    base_model, \* SpecAsm: the automata folded into the JaniModel so far
    returned    \* SpecAsm: what the call returned ("nothing" before / on raise)

vars == <<heap, root, ctx, result, err, phase, model, runs, prevHeap, prevModel,
          pc, scxmls, trace, base_model, returned>>

exprVars == <<heap, root, ctx, result, err, phase>>
modelVars == <<model, runs, prevHeap, prevModel>>
asmVars == <<pc, scxmls, trace, base_model, returned>>

---------------------------------------------------------------------------
(* Bounds *)

\* longest array-value literal drawn as an input
MaxLen == 3
\* number of preprocess_jani_expressions calls made on one model
MaxRuns == 2
\* number of input SCXML models handed to the assembler
MaxInputs == 3

---------------------------------------------------------------------------
(* JaniExpression *)

NoComment == "None"
NoError == "none"

\* A variable name. get_array_length_var_name derives the companion name from
\* the array's name and the dimension; dim = 0 is a plain (non-derived) name.
Name(b) == [base |-> b, dim |-> 0]
NoName == Name("")

get_array_length_var_name(array_name, dimension) ==
    [base |-> array_name.base, dim |-> dimension]

\* JaniExpression holding a JaniValue
Lit(v, c) ==
    [kind |-> "lit", op |-> "", name |-> NoName, val |-> v,
     ops |-> <<>>, elems |-> <<>>, comment |-> c]

\* JaniExpression holding an identifier
Ident(n, c) ==
    [kind |-> "id", op |-> "", name |-> n, val |-> 0,
     ops |-> <<>>, elems |-> <<>>, comment |-> c]

\* JaniExpression holding an operator; operands is the ordered mapping
\* role -> object id, as a sequence of [role, node]
Oper(o, operands, c) ==
    [kind |-> "op", op |-> o, name |-> NoName, val |-> 0,
     ops |-> operands, elems |-> <<>>, comment |-> c]

\* the array-value operator {"op": "av", "elements": [...]}
ArrayValue(es, c) ==
    [kind |-> "op", op |-> "av", name |-> NoName, val |-> 0,
     ops |-> <<>>, elems |-> es, comment |-> c]

Operand(r, n) == [role |-> r, node |-> n]

\* JaniExpression.get_expression_type
get_expression_type(n) ==
    CASE n.kind = "id" -> "IDENTIFIER"
      [] n.kind = "lit" -> "LITERAL"
      [] OTHER -> "OPERATOR"

\* is_expression_array(expr): takes the expression alone (no variable
\* context), so it recognises array values, never array-typed identifiers.
is_expression_array(h, e) == h[e].kind = "op" /\ h[e].op = "av"

\* is_variable_array(variable)
is_variable_array(v) == v.is_array

\* result of a call: the heap after it, the returned object, the error raised
Ret(h, r) == [h |-> h, r |-> r, err |-> NoError]
Raise(h, e) == [h |-> h, r |-> 0, err |-> e]

\* allocate a new object
Alloc(h, n) == Ret(Append(h, n), Len(h) + 1)

---------------------------------------------------------------------------
(* jani_expression_generator: and_operator, equal_operator,                *)
(* array_access_operator.  Their arguments are what the JaniExpression     *)
(* constructor accepts: a variable name, a number or a JaniExpression.     *)

StrArg(n) == [t |-> "str", name |-> n, val |-> 0, node |-> 0]
IntArg(v) == [t |-> "int", name |-> NoName, val |-> v, node |-> 0]
ExprArg(e) == [t |-> "expr", name |-> NoName, val |-> 0, node |-> e]

\* JaniExpression(x): a name gives an identifier, a number a literal, and a
\* JaniExpression a new object with the same fields.
JaniExpression(h, x) ==
    CASE x.t = "str" -> Alloc(h, Ident(x.name, NoComment))
      [] x.t = "int" -> Alloc(h, Lit(x.val, NoComment))
      [] OTHER -> Alloc(h, h[x.node])

\* JaniExpression({"op": o, r1: a1, r2: a2})
BinaryOperator(h, o, r1, a1, r2, a2) ==
    LET l == JaniExpression(h, a1)
        r == JaniExpression(l.h, a2)
    IN  Alloc(r.h, Oper(o, <<Operand(r1, l.r), Operand(r2, r.r)>>, NoComment))

equal_operator(h, left, right) == BinaryOperator(h, "=", "left", left, "right", right)

and_operator(h, left, right) == BinaryOperator(h, "and", "left", left, "right", right)

array_access_operator(h, exp, index) == BinaryOperator(h, "aa", "exp", exp, "index", index)

---------------------------------------------------------------------------
(* _preprocess_array_comparison *)

\* the locals of _preprocess_array_comparison before its loop
ScanInit ==
    [array_elements |-> <<>>, has_elements |-> FALSE,
     array_var_id |-> NoName, has_var |-> FALSE,
     array_length_var_ids |-> <<>>, has_operator |-> FALSE, err |-> NoError]

\* one iteration of the loop over exp_operands.values(): an identifier
\* operand is resolved in context_vars, any other operand must be an array
\* value with literal elements
ScanOperand(h, operand, context_vars, acc) ==
    LET n == h[operand] IN
    IF get_expression_type(n) = "IDENTIFIER"
    THEN IF n.name \notin DOMAIN context_vars
         THEN [acc EXCEPT !.err = "VarNotInContext"]
         ELSE LET array_variable == context_vars[n.name]
                  ids == [d \in 1..array_variable.dims |->
                              get_array_length_var_name(n.name, d)]
              IN  IF ~is_variable_array(array_variable)
                  THEN [acc EXCEPT !.err = "VarNotArray"]
                  ELSE IF ~array_variable.has_info
                  THEN [acc EXCEPT !.err = "NoArrayInfo"]
                  ELSE IF \E d \in DOMAIN ids : ids[d] \notin DOMAIN context_vars
                  THEN [acc EXCEPT !.err = "MissingLengthVars"]
                  ELSE [acc EXCEPT !.array_var_id = n.name, !.has_var = TRUE,
                                   !.array_length_var_ids = ids]
    ELSE IF ~(n.kind = "op" /\ n.op = "av")
         THEN [acc EXCEPT !.err = "NotArrayValue"]
         ELSE IF \E i \in DOMAIN n.elems :
                    get_expression_type(h[n.elems[i]]) # "LITERAL"
         THEN [acc EXCEPT !.err = "NonLiteralElement"]
         ELSE [acc EXCEPT !.array_elements = n.elems, !.has_elements = TRUE,
                          !.has_operator = TRUE]

\* the loop, from operand i on; it stops at the first failed assertion
RECURSIVE ScanOperands(_, _, _, _, _)
ScanOperands(h, operands, i, context_vars, acc) ==
    IF i > Len(operands) \/ acc.err # NoError THEN acc
    ELSE ScanOperands(h, operands, i + 1, context_vars,
                      ScanOperand(h, operands[i].node, context_vars, acc))

\* an element check that always reads the array's first entry
ElementCheckFirstEntry(h, array_elements, array_var_id, idx) ==
    LET acc == array_access_operator(h, StrArg(array_var_id), IntArg(0))
    IN  equal_operator(acc.h, ExprArg(array_elements[idx + 1]), ExprArg(acc.r))

\* equal_operator(array_elements[idx], array_access_operator(array_var_id, idx))
\* (idx counts from 0)
ElementCheck(h, array_elements, array_var_id, idx) ==
    LET acc == array_access_operator(h, StrArg(array_var_id), IntArg(idx))
    IN  equal_operator(acc.h, ExprArg(array_elements[idx + 1]), ExprArg(acc.r))

\* the loop over range(n_elements) from idx on:
\* last_expr = and_operator(last_expr, <element check idx>)
RECURSIVE ExpandElements(_, _, _, _, _)
ExpandElements(h, last_expr, array_elements, array_var_id, idx) ==
    IF idx >= Len(array_elements) THEN Ret(h, last_expr)
    ELSE LET eq == ElementCheck(h, array_elements, array_var_id, idx)
             cj == and_operator(eq.h, ExprArg(last_expr), ExprArg(eq.r))
         IN  ExpandElements(cj.h, cj.r, array_elements, array_var_id, idx + 1)

\* a length seed that counts one element too many
SeedOffByOne(h, length_var, n_elements) ==
    equal_operator(h, StrArg(length_var), IntArg(n_elements + 1))

\* last_expr = equal_operator(array_length_var_ids[0], n_elements)
LengthSeed(h, length_var, n_elements) ==
    equal_operator(h, StrArg(length_var), IntArg(n_elements))

\* an expansion that forgets the comment of the equality it replaces
SetCommentDropped(h, e, c) == h

\* last_expr.comment = jani_expression.comment
SetComment(h, e, c) == [h EXCEPT ![e].comment = c]

\* a dimension check that only rejects arrays without a length variable
DimensionCheckNonEmpty(array_length_var_ids) == Len(array_length_var_ids) >= 1

\* assert len(array_length_var_ids) == 1
DimensionCheck(array_length_var_ids) == Len(array_length_var_ids) = 1

_preprocess_array_comparison(h, jani_expression, context_vars) ==
    LET n == h[jani_expression]
        sc == ScanOperands(h, n.ops, 1, context_vars, ScanInit)
    IN  IF n.op # "=" THEN Raise(h, "NotEqualityOperator")
        ELSE IF sc.err # NoError THEN Raise(h, sc.err)
        ELSE IF ~sc.has_operator THEN Raise(h, "NoArrayOperator")
        ELSE IF ~sc.has_var THEN Raise(h, "NoArrayVariable")
        ELSE IF ~sc.has_elements THEN Raise(h, "NoArrayElements")
        ELSE IF ~DimensionCheck(sc.array_length_var_ids)
             THEN Raise(h, "MultiDimensional")
        ELSE LET n_elements == Len(sc.array_elements)
                 seed == LengthSeed(h, sc.array_length_var_ids[1], n_elements)
                 last == ExpandElements(seed.h, seed.r, sc.array_elements,
                                        sc.array_var_id, 0)
             IN  Ret(SetComment(last.h, last.r, n.comment), last.r)

---------------------------------------------------------------------------
(* _preprocess_jani_expression *)

\* a rebuild that hands the operands back in reverse role order
RebuiltOperandsSwapped(operands, new_ids) ==
    [i \in DOMAIN operands |->
        Operand(operands[i].role, new_ids[Len(operands) + 1 - i])]

\* new_expr_dict: each operand name with its preprocessed operand
RebuiltOperands(operands, new_ids) ==
    [i \in DOMAIN operands |-> Operand(operands[i].role, new_ids[i])]

\* a test for array operands that looks at the first operand only
has_array_operator_first_only(h, exp_operands) ==
    Len(exp_operands) > 0 /\ is_expression_array(h, exp_operands[1].node)

\* has_array_operator = any(is_expression_array(exp_op) for exp_op in exp_operands.values())
has_array_operator(h, exp_operands) ==
    \E i \in DOMAIN exp_operands : is_expression_array(h, exp_operands[i].node)

RECURSIVE _preprocess_jani_expression(_, _, _)
RECURSIVE PreprocessOperands(_, _, _, _, _)

\* the loop over exp_operands.items() from operand i on; new_ids collects
\* the preprocessed operands
PreprocessOperands(h, operands, i, context_vars, new_ids) ==
    IF i > Len(operands) THEN [h |-> h, ids |-> new_ids, err |-> NoError]
    ELSE LET r == _preprocess_jani_expression(h, operands[i].node, context_vars)
         IN  IF r.err # NoError THEN [h |-> r.h, ids |-> new_ids, err |-> r.err]
             ELSE PreprocessOperands(r.h, operands, i + 1, context_vars,
                                     Append(new_ids, r.r))

_preprocess_jani_expression(h, jani_expression, context_vars) ==
    LET n == h[jani_expression] IN
    IF n.kind # "op" \/ is_expression_array(h, jani_expression)
    THEN Ret(h, jani_expression)
    ELSE IF has_array_operator(h, n.ops)
    THEN IF n.op # "="
         THEN Raise(h, "NotEqualityOperator")
         ELSE _preprocess_array_comparison(h, jani_expression, context_vars)
    ELSE LET r == PreprocessOperands(h, n.ops, 1, context_vars, <<>>)
         IN  IF r.err # NoError THEN Raise(r.h, r.err)
             ELSE Alloc(r.h, Oper(n.op, RebuiltOperands(n.ops, r.ids), n.comment))

---------------------------------------------------------------------------
(* SpecExpr: _preprocess_jani_expression applied to one expression *)

\* JaniVariable: is it an array, does get_array_info() give its ArrayInfo,
\* and ArrayInfo.array_dimensions
ScalarVar == [is_array |-> FALSE, has_info |-> FALSE, dims |-> 0]
ArrayVar(d) == [is_array |-> TRUE, has_info |-> TRUE, dims |-> d]

\* The variables of the contexts drawn: arr is a 1-D array and mat a 2-D
\* array, each with its length companions; x is a scalar; nolen is a 1-D
\* array whose length companion is missing. "ghost" is declared nowhere.
VarInfo(n) ==
    CASE n = Name("arr") -> ArrayVar(1)
      [] n = Name("mat") -> ArrayVar(2)
      [] n = Name("nolen") -> ArrayVar(1)
      [] n = Name("loc") -> ArrayVar(1)
      [] OTHER -> ScalarVar

GlobalNames ==
    {Name("arr"), get_array_length_var_name(Name("arr"), 1),
     Name("mat"), get_array_length_var_name(Name("mat"), 1),
     get_array_length_var_name(Name("mat"), 2),
     Name("x"), Name("nolen")}

GlobalVariables == [n \in GlobalNames |-> VarInfo(n)]

\* the identifiers an input expression may name
InputVars == {Name("arr"), Name("mat"), Name("x"), Name("nolen"), Name("ghost")}

\* the elements of an input array value: the literals 1 and 2, or the
\* identifier x (a non-literal element)
ElemLit(v) == [k |-> "lit", v |-> v]
ElemId == [k |-> "id", v |-> 0]
ElemPalette == {ElemLit(1), ElemLit(2), ElemId}

ElemNode(e) == IF e.k = "lit" THEN Lit(e.v, NoComment) ELSE Ident(Name("x"), NoComment)

\* sequences of at most n elements over S
SeqsUpTo(S, n) == UNION {[1..k -> S] : k \in 0..n}

\* the shapes of input expression drawn around the equality `var = av`
Shapes == {"eq", "leaf", "not", "and", "plus", "idplus", "ideq", "aveq", "lt", "deep"}

\* The input heap for elements es, operand order (idFirst: the identifier is
\* the left operand), identifier v and comment c of the equality node.
\* With n = Len(es):
\*   1..n element nodes        n+1  av                  n+2  v
\*   n+3  v = av  (or av = v)  n+4  x                   n+5  1
\*   n+6  x < 1                n+7  not (v = av)        n+8  (v = av) and (x < 1)
\*   n+9  v + av               n+10 v + x               n+11 v = v
\*   n+12 av = av              n+13 (x < 1) and (v + av)
InputHeap(es, idFirst, v, c) ==
    LET n == Len(es) IN
    [i \in 1..n |-> ElemNode(es[i])] \o
    << ArrayValue([i \in 1..n |-> i], NoComment),
       Ident(v, NoComment),
       Oper("=", IF idFirst
                 THEN <<Operand("left", n + 2), Operand("right", n + 1)>>
                 ELSE <<Operand("left", n + 1), Operand("right", n + 2)>>, c),
       Ident(Name("x"), NoComment),
       Lit(1, NoComment),
       Oper("<", <<Operand("left", n + 4), Operand("right", n + 5)>>, "c_lt"),
       Oper("not", <<Operand("exp", n + 3)>>, "c_not"),
       Oper("and", <<Operand("left", n + 3), Operand("right", n + 6)>>, "c_and"),
       Oper("+", <<Operand("left", n + 2), Operand("right", n + 1)>>, NoComment),
       Oper("+", <<Operand("left", n + 2), Operand("right", n + 4)>>, NoComment),
       Oper("=", <<Operand("left", n + 2), Operand("right", n + 2)>>, NoComment),
       Oper("=", <<Operand("left", n + 1), Operand("right", n + 1)>>, NoComment),
       Oper("and", <<Operand("left", n + 6), Operand("right", n + 9)>>, NoComment) >>

InputRoot(es, shape) ==
    Len(es) + (CASE shape = "leaf" -> 1
                 [] shape = "eq" -> 3
                 [] shape = "lt" -> 6
                 [] shape = "not" -> 7
                 [] shape = "and" -> 8
                 [] shape = "plus" -> 9
                 [] shape = "idplus" -> 10
                 [] shape = "ideq" -> 11
                 [] shape = "aveq" -> 12
                 [] OTHER -> 13)

EmptyModel == [variables |-> GlobalVariables, features |-> {}, automata |-> <<>>,
               properties |-> <<>>]

\* before JaniModel() is constructed
NoModel == [features |-> {}, automata |-> <<>>]

ModelIdle ==
    /\ model = EmptyModel /\ runs = 0 /\ prevHeap = <<>> /\ prevModel = EmptyModel

AsmIdle ==
    /\ pc = [at |-> "idle", i |-> 0] /\ scxmls = <<>> /\ trace = <<>> /\ base_model = NoModel
    /\ returned = "nothing"

InitExpr ==
    /\ \E es \in SeqsUpTo(ElemPalette, MaxLen), idFirst \in BOOLEAN,
          v \in InputVars, c \in {NoComment, "c_eq"}, shape \in Shapes :
            /\ heap = InputHeap(es, idFirst, v, c)
            /\ root = InputRoot(es, shape)
    /\ ctx = GlobalVariables
    /\ result = 0
    /\ err = NoError
    /\ phase = "input"
    /\ ModelIdle
    /\ AsmIdle

\* the call _preprocess_jani_expression(root, ctx)
Normalize ==
    /\ phase = "input"
    /\ \E r \in {_preprocess_jani_expression(heap, root, ctx)} :
         /\ heap' = r.h
         /\ result' = r.r
         /\ err' = r.err
    /\ phase' = "done"
    /\ UNCHANGED <<root, ctx>>
    /\ UNCHANGED modelVars
    /\ UNCHANGED asmVars

NextExpr == Normalize

SpecExpr == InitExpr /\ [][NextExpr]_vars

---------------------------------------------------------------------------
(* Semantics of the expressions the expansion produces: an array is a      *)
(* backing store (indices from 0) plus the value of its length variable.   *)

StoreValues == {1, 2}
Stores == [0..(MaxLen - 1) -> StoreValues]
Lengths == 0..MaxLen

\* the value of an integer term under the valuation: the length variable of
\* array a is lenVal, a[i] is store[i]; any other variable is 0
RECURSIVE EvalInt(_, _, _, _, _)
EvalInt(h, e, a, lenVal, store) ==
    LET n == h[e] IN
    CASE n.kind = "lit" -> n.val
      [] n.kind = "id" -> IF n.name = [base |-> a.base, dim |-> 1] THEN lenVal ELSE 0
      [] OTHER -> IF h[n.ops[1].node].name = a
                  THEN store[EvalInt(h, n.ops[2].node, a, lenVal, store)]
                  ELSE 0

\* the value of a conjunction of equalities under the valuation
RECURSIVE EvalBool(_, _, _, _, _)
EvalBool(h, e, a, lenVal, store) ==
    LET n == h[e] IN
    IF n.op = "and"
    THEN /\ EvalBool(h, n.ops[1].node, a, lenVal, store)
         /\ EvalBool(h, n.ops[2].node, a, lenVal, store)
    ELSE EvalInt(h, n.ops[1].node, a, lenVal, store)
            = EvalInt(h, n.ops[2].node, a, lenVal, store)

---------------------------------------------------------------------------
(* Claims checked under SpecExpr *)

RootNode == heap[root]

\* the two operands of the root when it is an operator over two operands
RootOperands == {RootNode.ops[i].node : i \in DOMAIN RootNode.ops}

IsArrayValueNode(e) == heap[e].kind = "op" /\ heap[e].op = "av"
IsIdentNode(e) == heap[e].kind = "id"

\* the root is an equality between an identifier and an array value
RootIsIdentVsArrayValue ==
    /\ RootNode.kind = "op" /\ RootNode.op = "=" /\ Len(RootNode.ops) = 2
    /\ \E a \in RootOperands : IsArrayValueNode(a)
    /\ \E i \in RootOperands : IsIdentNode(i)

RootArrayValue == CHOOSE a \in RootOperands : IsArrayValueNode(a)
RootIdent == CHOOSE i \in RootOperands : IsIdentNode(i)
RootElems == heap[RootArrayValue].elems
RootN == Len(RootElems)
RootAllLiteral == \A i \in DOMAIN RootElems : heap[RootElems[i]].kind = "lit"

\* the identifier of the root names a declared array whose length companions
\* are all declared
RootIdentResolves ==
    LET v == heap[RootIdent].name IN
    /\ v \in DOMAIN ctx
    /\ ctx[v].is_array
    /\ \A d \in 1..ctx[v].dims : [base |-> v.base, dim |-> d] \in DOMAIN ctx

RootIdentDims == ctx[heap[RootIdent].name].dims

\* the root is `a = [v0..vN-1]` or `[v0..vN-1] = a`, a a 1-D array, vi literals
RootIsArrayEquality ==
    /\ RootIsIdentVsArrayValue
    /\ RootAllLiteral
    /\ RootIdentResolves
    /\ RootIdentDims = 1

\* len_a = N and a[i] = vi for all 0 <= i < N
ArraysEqual(lenVal, store) ==
    /\ lenVal = RootN
    /\ \A i \in 0..(RootN - 1) : store[i] = heap[RootElems[i + 1]].val

\* the returned formula is true under the valuation of the root's array
ResultHolds(lenVal, store) == EvalBool(heap, result, heap[RootIdent].name, lenVal, store)

\* C1: for a 1-D array a and a literal [v0..vN-1] (either operand order, N = 0
\* included), the formula normalization returns for `a = [v0..vN-1]` is true
\* exactly when len_a = N and a[i] = vi for all i < N, under every valuation
\* of len_a and of the backing store; and its value is the same for two
\* backing stores that agree below len_a.
C1_ArrayEqualityCorrect ==
    (phase = "done" /\ RootIsArrayEquality) =>
        /\ err = NoError
        /\ \A lenVal \in Lengths, store \in Stores :
              ResultHolds(lenVal, store) <=> ArraysEqual(lenVal, store)
        /\ \A lenVal \in Lengths, s1 \in Stores, s2 \in Stores :
              (\A i \in 0..(MaxLen - 1) : i < lenVal => s1[i] = s2[i]) =>
                  (ResultHolds(lenVal, s1) <=> ResultHolds(lenVal, s2))

\* a normalized `a = [v0, v1]` that is false although len_a = 2, because a[1] # v1
C1_Witness ==
    /\ phase = "done" /\ RootIsArrayEquality /\ err = NoError /\ RootN = 2
    /\ \E store \in Stores :
          /\ store[0] = heap[RootElems[1]].val
          /\ store[1] # heap[RootElems[2]].val
          /\ ~ResultHolds(2, store)

\* e is the equality `length variable of dimension 1 of a = n`
IsLengthSeed(h, e, a, n) ==
    /\ h[e].kind = "op" /\ h[e].op = "=" /\ Len(h[e].ops) = 2
    /\ h[e].ops[1].role = "left" /\ h[e].ops[2].role = "right"
    /\ h[h[e].ops[1].node].kind = "id"
    /\ h[h[e].ops[1].node].name = [base |-> a.base, dim |-> 1]
    /\ h[h[e].ops[2].node].kind = "lit"
    /\ h[h[e].ops[2].node].val = n

\* e is the equality of the literal v with the array access a[i]
IsElementConjunct(h, e, a, i, v) ==
    /\ h[e].kind = "op" /\ h[e].op = "=" /\ Len(h[e].ops) = 2
    /\ h[e].ops[1].role = "left" /\ h[e].ops[2].role = "right"
    /\ h[h[e].ops[1].node].kind = "lit"
    /\ h[h[e].ops[1].node].val = v
    /\ LET acc == h[h[e].ops[2].node] IN
          /\ acc.kind = "op" /\ acc.op = "aa" /\ Len(acc.ops) = 2
          /\ acc.ops[1].role = "exp" /\ acc.ops[2].role = "index"
          /\ h[acc.ops[1].node].kind = "id" /\ h[acc.ops[1].node].name = a
          /\ h[acc.ops[2].node].kind = "lit" /\ h[acc.ops[2].node].val = i

\* e is the chain ((seed and c0) and c1) ... and c(k-1) over the first k of
\* the n literal values vs
RECURSIVE IsChain(_, _, _, _, _, _)
IsChain(h, e, a, vs, n, k) ==
    IF k = 0 THEN IsLengthSeed(h, e, a, n)
    ELSE /\ h[e].kind = "op" /\ h[e].op = "and" /\ Len(h[e].ops) = 2
         /\ h[e].ops[1].role = "left" /\ h[e].ops[2].role = "right"
         /\ IsChain(h, h[e].ops[1].node, a, vs, n, k - 1)
         /\ IsElementConjunct(h, h[e].ops[2].node, a, k - 1, vs[k])

RootValues == [i \in DOMAIN RootElems |-> heap[RootElems[i]].val]

\* C2: `arr = [e0..eN-1]` over a 1-D array arr is replaced by exactly the
\* left-associated chain (((len = N) and c0) and c1) ... and cN-1: len is the
\* length variable of dimension 1 of arr, the seed is innermost-left, and ci
\* equates the literal ei with the access of arr at index i, for i = 0..N-1
\* in increasing order; for N = 0 the result is the seed alone.
C2_ExpansionIsLeftChain ==
    (phase = "done" /\ RootIsArrayEquality) =>
        /\ err = NoError
        /\ IsChain(heap, result, heap[RootIdent].name, RootValues, RootN, RootN)

\* `arr = [1, 2]` was normalized
C2_Witness ==
    /\ phase = "done" /\ RootIsArrayEquality /\ err = NoError
    /\ heap[RootIdent].name = [base |-> "arr", dim |-> 0]
    /\ RootNode.ops[1].node = RootIdent
    /\ RootValues = <<1, 2>>
    /\ heap[result].op = "and"

\* the root is an equality of two identifiers naming arrays of 2 dimensions
RootIsTwoMultiDimArrays ==
    /\ RootNode.kind = "op" /\ RootNode.op = "=" /\ Len(RootNode.ops) = 2
    /\ \A i \in RootOperands :
          /\ IsIdentNode(i)
          /\ heap[i].name \in DOMAIN ctx
          /\ ctx[heap[i].name].is_array
          /\ ctx[heap[i].name].dims > 1

RootRebuiltUnchanged ==
    /\ result # 0 /\ result # root
    /\ heap[result].kind = "op" /\ heap[result].op = RootNode.op
    /\ heap[result].ops = RootNode.ops
    /\ heap[result].comment = RootNode.comment

IsArrayIdent(h, e) ==
    /\ h[e].kind = "id"
    /\ h[e].name \in DOMAIN ctx
    /\ ctx[h[e].name].is_array

\* Some operator node the normalizer reaches from e is not an equality and
\* has an operand satisfying IsArr. The normalizer descends through operator
\* nodes that are not array values and have no array-value operand.
RECURSIVE ReachesNonEqualityOver(_, _, _)
ReachesNonEqualityOver(h, e, withIdents) ==
    LET n == h[e]
        operands == {n.ops[i].node : i \in DOMAIN n.ops}
        avOperand == \E o \in operands : h[o].kind = "op" /\ h[o].op = "av"
        idOperand == withIdents /\ \E o \in operands : IsArrayIdent(h, o)
    IN  /\ n.kind = "op" /\ n.op # "av"
        /\ \/ n.op # "=" /\ (avOperand \/ idOperand)
           \/ ~avOperand /\ \E o \in operands : ReachesNonEqualityOver(h, o, withIdents)

RECURSIVE CommentsPreserved(_, _, _)
CommentsPreserved(h, src, dst) ==
    LET s == h[src]
        d == h[dst]
    IN  IF s.kind # "op" \/ s.op = "av" THEN dst = src
        ELSE IF \E i \in DOMAIN s.ops : h[s.ops[i].node].kind = "op" /\ h[s.ops[i].node].op = "av"
        THEN d.comment = s.comment
        ELSE /\ d.comment = s.comment
             /\ Len(d.ops) = Len(s.ops)
             /\ \A i \in DOMAIN s.ops : CommentsPreserved(h, s.ops[i].node, d.ops[i].node)

\* C8: every node the normalizer rebuilds carries its source's comment, at
\* every depth, and the expansion of an array equality carries the comment
\* of the equality, also when the literal is empty and the result is the
\* length seed alone.
C8_CommentsPreserved ==
    (phase = "done" /\ err = NoError) => CommentsPreserved(heap, root, result)

\* `(arr = []) and (x < 1)` with a comment on the equality was normalized:
\* the seed carries the equality's comment, the rebuilt nodes their own
C8_Witness ==
    /\ phase = "done" /\ err = NoError
    /\ RootNode.op = "and" /\ RootNode.comment = "c_and"
    /\ heap[result].comment = "c_and" /\ result # root
    /\ LET l == heap[result].ops[1].node
           r == heap[result].ops[2].node
       IN  /\ heap[l].op = "=" /\ heap[l].comment = "c_eq"
           /\ heap[RootNode.ops[1].node].comment = "c_eq"
           /\ heap[heap[RootNode.ops[1].node].ops[2].node].elems = <<>>
           /\ heap[r].op = "<" /\ heap[r].comment = "c_lt"
           /\ r # RootNode.ops[2].node

---------------------------------------------------------------------------
(* SpecModel: preprocess_jani_expressions applied to a JaniModel *)

\* JaniExpression.reset(expression): overwrite the fields of an existing
\* object with those of another
reset(h, target, expression) == [h EXCEPT ![target] = h[expression]]

\* state threaded through the loops: heap, model, error raised
St(h, m, e) == [h |-> h, m |-> m, err |-> e]

\* a guard update that is done in place on the old expression object
SetGuardInPlace(st, a, e, r) ==
    St(reset(r.h, st.m.automata[a].edges[e].guard.expression, r.r), st.m, r.err)

\* jani_edge.guard.set_expression(<preprocessed guard>)
SetGuardExpression(st, a, e, r) ==
    St(r.h, [st.m EXCEPT !.automata[a].edges[e].guard.expression = r.r], r.err)

\* an assignment update that replaces the destination's assignment list by
\* the one assignment
SetAssignmentAlone(st, a, e, d, k, r) ==
    St(r.h,
       [st.m EXCEPT !.automata[a].edges[e].destinations[d].assignments =
            << [@[k] EXCEPT !.expression = r.r] >>],
       r.err)

\* assignment.set_expression(<preprocessed value>)
SetAssignmentExpression(st, a, e, d, k, r) ==
    St(r.h,
       [st.m EXCEPT !.automata[a].edges[e].destinations[d].assignments[k].expression = r.r],
       r.err)

\* property_exp.reset(<preprocessed operand>)
ResetPropertyOperand(st, property_exp, r) ==
    St(reset(r.h, property_exp, r.r), st.m, r.err)

\* the value of F at x, with x evaluated once
Bind(x, F(_)) == CHOOSE r \in {F(v) : v \in {x}} : TRUE

\* the loop over a destination's assignments, from assignment k on
RECURSIVE ProcessAssignments(_, _, _, _, _, _)
ProcessAssignments(st0, a, e, d, k, context_variables) ==
    Bind(st0, LAMBDA st :
        LET assignments == st.m.automata[a].edges[e].destinations[d].assignments IN
        IF st.err # NoError \/ k > Len(assignments) THEN st
        ELSE Bind(_preprocess_jani_expression(st.h, assignments[k].expression,
                                              context_variables),
                  LAMBDA r :
                    IF r.err # NoError THEN St(r.h, st.m, r.err)
                    ELSE ProcessAssignments(SetAssignmentExpression(st, a, e, d, k, r),
                                            a, e, d, k + 1, context_variables)))

\* the loop over an edge's destinations, from destination d on
RECURSIVE ProcessDestinations(_, _, _, _, _)
ProcessDestinations(st0, a, e, d, context_variables) ==
    Bind(st0, LAMBDA st :
        IF st.err # NoError \/ d > Len(st.m.automata[a].edges[e].destinations) THEN st
        ELSE ProcessDestinations(ProcessAssignments(st, a, e, d, 1, context_variables),
                                 a, e, d + 1, context_variables))

\* the guard of edge e: untouched when the edge has no guard or the guard
\* holds no expression
ProcessGuard(st0, a, e, context_variables) ==
    Bind(st0, LAMBDA st :
        LET guard == st.m.automata[a].edges[e].guard IN
        IF ~guard.present \/ guard.expression = 0 THEN st
        ELSE Bind(_preprocess_jani_expression(st.h, guard.expression, context_variables),
                  LAMBDA r :
                    IF r.err # NoError THEN St(r.h, st.m, r.err)
                    ELSE SetGuardExpression(st, a, e, r)))

\* the loop over an automaton's edges, from edge e on
RECURSIVE ProcessEdges(_, _, _, _)
ProcessEdges(st0, a, e, context_variables) ==
    Bind(st0, LAMBDA st :
        IF st.err # NoError \/ e > Len(st.m.automata[a].edges) THEN st
        ELSE ProcessEdges(
                ProcessDestinations(ProcessGuard(st, a, e, context_variables),
                                    a, e, 1, context_variables),
                a, e + 1, context_variables))

\* global_variables | jani_automaton.get_variables()
ContextVariables(global_variables, local_variables) ==
    [n \in DOMAIN global_variables \cup DOMAIN local_variables |->
        IF n \in DOMAIN local_variables THEN local_variables[n]
        ELSE global_variables[n]]

\* the loop over the automata, from automaton a on
RECURSIVE ProcessAutomata(_, _)
ProcessAutomata(st0, a) ==
    Bind(st0, LAMBDA st :
        IF st.err # NoError \/ a > Len(st.m.automata) THEN st
        ELSE ProcessAutomata(
                ProcessEdges(st, a, 1,
                    ContextVariables(st.m.variables, st.m.automata[a].variables)),
                a + 1))

\* the loop over a property's operands, from operand i on
RECURSIVE ProcessPropertyOperands(_, _, _)
ProcessPropertyOperands(st0, p, i) ==
    Bind(st0, LAMBDA st :
        LET property_operands == st.m.properties[p].operands IN
        IF st.err # NoError \/ i > Len(property_operands) THEN st
        ELSE Bind(_preprocess_jani_expression(st.h, property_operands[i].node,
                                              st.m.variables),
                  LAMBDA r :
                    IF r.err # NoError THEN St(r.h, st.m, r.err)
                    ELSE ProcessPropertyOperands(
                            ResetPropertyOperand(st, property_operands[i].node, r),
                            p, i + 1)))

\* the loop over the properties, from property p on
RECURSIVE ProcessProperties(_, _)
ProcessProperties(st0, p) ==
    Bind(st0, LAMBDA st :
        IF st.err # NoError \/ p > Len(st.m.properties) THEN st
        ELSE ProcessProperties(ProcessPropertyOperands(st, p, 1), p + 1))

preprocess_jani_expressions(h, jani_model) ==
    ProcessProperties(ProcessAutomata(St(h, jani_model, NoError), 1), 1)

\* node ids of a heap fragment moved by k
Shift(h, k) ==
    [i \in DOMAIN h |->
        [h[i] EXCEPT !.ops = [j \in DOMAIN h[i].ops |->
                                Operand(h[i].ops[j].role, h[i].ops[j].node + k)],
                     !.elems = [j \in DOMAIN h[i].elems |-> h[i].elems[j] + k]]]

\* The expressions of the input models: the shapes of InputHeap around
\* `arr = [1, 2]` (objects 1..15) and around `[1] = loc` (objects 16..29),
\* loc being an array local to the first automaton.
PoolHeap ==
    InputHeap(<<ElemLit(1), ElemLit(2)>>, TRUE, Name("arr"), "c_eq") \o
    Shift(InputHeap(<<ElemLit(1)>>, FALSE, Name("loc"), NoComment), 15)

\* the objects a guard, an assignment or a property may hold: from the first
\* fragment the array value, the equality and the shapes lt, not, and, plus,
\* idplus, ideq; from the second the equality and the shape and
PoolRoots == {3, 5, 8, 9, 10, 11, 12, 13, 19, 24}

LocalNames == {Name("loc"), get_array_length_var_name(Name("loc"), 1)}
LocalVariables == [n \in LocalNames |-> VarInfo(n)]
NoVariables == [n \in {} |-> ScalarVar]

Guard(present, e) == [present |-> present, expression |-> e]
Assignment(r, e) == [ref |-> r, expression |-> e]
Destination(p, as) == [probability |-> p, assignments |-> as]
Edge(g, ds) == [guard |-> g, destinations |-> ds]

\* The input model: automaton A1 (local array loc) with an edge holding
\* guard g and assignment values v and [1, 2], and an edge whose guard holds no
\* expression; automaton A2 with an edge without guard that assigns the
\* array value; one property with operands p and `x < 1`.
InputModel(g, v, p) ==
    [variables |-> GlobalVariables,
     features |-> {"arrays", "trigonometric-functions"},
     automata |->
        << [name |-> "A1", variables |-> LocalVariables,
            edges |-> << Edge(Guard(TRUE, g),
                              << Destination(1, << Assignment(Name("x"), v),
                                                    Assignment(Name("arr"), 3) >>) >>),
                         Edge(Guard(TRUE, 0), << Destination(1, <<>>) >>) >>],
           [name |-> "A2", variables |-> NoVariables,
            edges |-> << Edge(Guard(FALSE, 0),
                              << Destination(1, << Assignment(Name("arr"), 3) >>) >>) >>] >>,
     properties |->
        << [name |-> "P1", operands |-> << Operand("left", p), Operand("right", 8) >>] >>]

ExprIdle ==
    /\ root = 0 /\ ctx = GlobalVariables /\ result = 0 /\ phase = "model"

InitModel ==
    /\ heap = PoolHeap
    /\ \E g \in PoolRoots, v \in PoolRoots, p \in PoolRoots : model = InputModel(g, v, p)
    /\ err = NoError
    /\ runs = 0
    /\ prevHeap = PoolHeap
    /\ prevModel = model
    /\ ExprIdle
    /\ AsmIdle

\* the call preprocess_jani_expressions(model); a raised error leaves the
\* updates made before it
Preprocess ==
    /\ phase = "model"
    /\ err = NoError
    /\ runs < MaxRuns
    /\ \E st \in {preprocess_jani_expressions(heap, model)} :
         /\ heap' = st.h
         /\ model' = st.m
         /\ err' = st.err
    /\ prevHeap' = heap
    /\ prevModel' = model
    /\ runs' = runs + 1
    /\ UNCHANGED <<root, ctx, result, phase>>
    /\ UNCHANGED asmVars

NextModel == Preprocess

SpecModel == InitModel /\ [][NextModel]_vars

---------------------------------------------------------------------------
(* Claims checked under SpecModel *)

\* the trees under e1 in h1 and under e2 in h2 are identical: same variant,
\* operator, name, value, comment, operand roles and order, and identical
\* operands and elements
RECURSIVE SameTree(_, _, _, _)
SameTree(h1, e1, h2, e2) ==
    LET a == h1[e1]
        b == h2[e2]
    IN  /\ a.kind = b.kind /\ a.op = b.op /\ a.name = b.name /\ a.val = b.val
        /\ a.comment = b.comment
        /\ Len(a.ops) = Len(b.ops) /\ Len(a.elems) = Len(b.elems)
        /\ \A i \in DOMAIN a.ops :
              /\ a.ops[i].role = b.ops[i].role
              /\ SameTree(h1, a.ops[i].node, h2, b.ops[i].node)
        /\ \A i \in DOMAIN a.elems : SameTree(h1, a.elems[i], h2, b.elems[i])

\* the guards, as (automaton, edge)
GuardSlots(m) ==
    UNION {{<<a, e>> : e \in DOMAIN m.automata[a].edges} : a \in DOMAIN m.automata}

\* the assignments, as (automaton, edge, destination, assignment)
AssignmentSlots(m) ==
    UNION {UNION {{<<g[1], g[2], d, k>> :
                      k \in DOMAIN m.automata[g[1]].edges[g[2]].destinations[d].assignments} :
                  d \in DOMAIN m.automata[g[1]].edges[g[2]].destinations} :
           g \in GuardSlots(m)}

\* the property operands, as (property, operand)
OperandSlots(m) ==
    UNION {{<<p, i>> : i \in DOMAIN m.properties[p].operands} : p \in DOMAIN m.properties}

GuardOf(m, s) == m.automata[s[1]].edges[s[2]].guard.expression
ValueOf(m, s) == m.automata[s[1]].edges[s[2]].destinations[s[3]].assignments[s[4]].expression
OperandOf(m, s) == m.properties[s[1]].operands[s[2]].node

\* every guard, assignment value and property operand of (h2, m2) is the
\* tree it is in (h1, m1)
SameExpressions(h1, m1, h2, m2) ==
    /\ \A s \in GuardSlots(m1) :
          IF GuardOf(m1, s) = 0 THEN GuardOf(m2, s) = 0
          ELSE GuardOf(m2, s) # 0 /\ SameTree(h1, GuardOf(m1, s), h2, GuardOf(m2, s))
    /\ \A s \in AssignmentSlots(m1) : SameTree(h1, ValueOf(m1, s), h2, ValueOf(m2, s))
    /\ \A s \in OperandSlots(m1) : SameTree(h1, OperandOf(m1, s), h2, OperandOf(m2, s))

Skeleton(m) ==
    [variables |-> m.variables,
     features |-> m.features,
     automata |-> [a \in DOMAIN m.automata |->
        [name |-> m.automata[a].name,
         variables |-> m.automata[a].variables,
         edges |-> [e \in DOMAIN m.automata[a].edges |->
            LET edge == m.automata[a].edges[e] IN
            [has_guard |-> edge.guard.present,
             has_guard_expression |-> edge.guard.expression # 0,
             destinations |-> [d \in DOMAIN edge.destinations |->
                [probability |-> edge.destinations[d].probability,
                 targets |-> [k \in DOMAIN edge.destinations[d].assignments |->
                                edge.destinations[d].assignments[k].ref]]]]]]],
     properties |-> [p \in DOMAIN m.properties |->
        [name |-> m.properties[p].name,
         roles |-> [i \in DOMAIN m.properties[p].operands |->
                        m.properties[p].operands[i].role]]]]

\* C9: a call of preprocess_jani_expressions (also one that raises) changes
\* only guard expressions, assignment value expressions and property operand
\* expressions: the variable registries, the features, the automata and
\* their order, every automaton's edges, every edge's destinations and
\* weights, every assignment's target and the order of the assignments, and
\* the properties with their names and operand roles are as before.
C9_FrameUnchanged ==
    runs >= 1 => Skeleton(model) = Skeleton(prevModel)

\* a run that replaced a guard and an assignment value and rewrote a
\* property operand
C9_Witness ==
    /\ runs = 1 /\ err = NoError
    /\ GuardOf(model, <<1, 1>>) # GuardOf(prevModel, <<1, 1>>)
    /\ ValueOf(model, <<1, 1, 1, 1>>) # ValueOf(prevModel, <<1, 1, 1, 1>>)
    /\ heap[OperandOf(model, <<1, 1>>)] # prevHeap[OperandOf(prevModel, <<1, 1>>)]

PropertyOperandObjects(m) == {OperandOf(m, s) : s \in OperandSlots(m)}

IsLeafOrArrayValue(h, e) == h[e].kind # "op" \/ h[e].op = "av"

\* e is the equality `arr = [1, 2]`
IsArr12Equality(h, e) ==
    /\ h[e].kind = "op" /\ h[e].op = "=" /\ Len(h[e].ops) = 2
    /\ h[h[e].ops[1].node].kind = "id" /\ h[h[e].ops[1].node].name = Name("arr")
    /\ h[h[e].ops[2].node].kind = "op" /\ h[h[e].ops[2].node].op = "av"
    /\ LET es == h[h[e].ops[2].node].elems IN
          /\ Len(es) = 2
          /\ h[es[1]].kind = "lit" /\ h[es[1]].val = 1
          /\ h[es[2]].kind = "lit" /\ h[es[2]].val = 2

---------------------------------------------------------------------------
(* SpecAsm: convert_multiple_scxmls_to_jani, statement by statement *)

\* expand_random_variables_in_jani_model(base_model, n_options=100)
N_OPTIONS == 100

\* An input ScxmlRoot: what is_plain_scxml() answers, and whether
\* convert_scxml_root_to_jani_automaton returns or raises on it.
Inputs == [plain : BOOLEAN, converts : BOOLEAN]

\* a call made on a collaborator: its name, the input it is about (0: none)
\* and what it is handed: the inputs that registered their events in the
\* EventsHolder so far, or n_options
Call(c, i, a) == [call |-> c, input |-> i, arg |-> a]

At(a, i) == [at |-> a, i |-> i]

\* the inputs folded into the model so far have put their events into the
\* one EventsHolder
events_holder == base_model.automata

InitAsm ==
    /\ scxmls \in SeqsUpTo(Inputs, MaxInputs)
    /\ pc = At("start", 0)
    /\ trace = <<>>
    /\ base_model = NoModel
    /\ returned = "nothing"
    /\ err = NoError
    /\ heap = <<>>
    /\ ExprIdle
    /\ ModelIdle

\* base_model = JaniModel(); add_feature(...) twice; events_holder = EventsHolder()
Construct ==
    /\ pc.at = "start"
    /\ base_model' = [features |-> {"arrays", "trigonometric-functions"}, automata |-> <<>>]
    /\ pc' = At("loop", 1)
    /\ UNCHANGED <<scxmls, trace, returned, err>>
    /\ UNCHANGED <<heap, root, ctx, result, phase>>
    /\ UNCHANGED modelVars

\* a plain check that lets every input through
PlainCheckSkipped(input_scxml) == TRUE

\* assert input_scxml.is_plain_scxml()
PlainCheck(input_scxml) == input_scxml.plain

\* the assertion on the next input fails: the AssertionError leaves the function
RejectNotPlain ==
    /\ pc.at = "loop" /\ pc.i <= Len(scxmls)
    /\ ~PlainCheck(scxmls[pc.i])
    /\ err' = "AssertionError"
    /\ pc' = At("raised", pc.i)
    /\ UNCHANGED <<scxmls, trace, base_model, returned>>
    /\ UNCHANGED <<heap, root, ctx, result, phase>>
    /\ UNCHANGED modelVars

\* convert_scxml_root_to_jani_automaton(input_scxml, events_holder, max_array_size)
\* returns the automaton
Translate ==
    /\ pc.at = "loop" /\ pc.i <= Len(scxmls)
    /\ PlainCheck(scxmls[pc.i])
    /\ scxmls[pc.i].converts
    /\ trace' = Append(trace, Call("convert", pc.i, events_holder))
    /\ pc' = At("fold", pc.i)
    /\ UNCHANGED <<scxmls, base_model, returned, err>>
    /\ UNCHANGED <<heap, root, ctx, result, phase>>
    /\ UNCHANGED modelVars

\* the conversion raises: log_error(origin, name), then raise e
TranslateFails ==
    /\ pc.at = "loop" /\ pc.i <= Len(scxmls)
    /\ PlainCheck(scxmls[pc.i])
    /\ ~scxmls[pc.i].converts
    /\ trace' = trace \o << Call("convert", pc.i, events_holder),
                            Call("log_error", pc.i, <<>>) >>
    /\ err' = "TranslationError"
    /\ pc' = At("raised", pc.i)
    /\ UNCHANGED <<scxmls, base_model, returned>>
    /\ UNCHANGED <<heap, root, ctx, result, phase>>
    /\ UNCHANGED modelVars

\* base_model.add_jani_automaton(automaton)
Fold ==
    /\ pc.at = "fold"
    /\ trace' = Append(trace, Call("add_jani_automaton", pc.i, <<>>))
    /\ base_model' = [base_model EXCEPT !.automata = Append(@, pc.i)]
    /\ pc' = At("loop", pc.i + 1)
    /\ UNCHANGED <<scxmls, returned, err>>
    /\ UNCHANGED <<heap, root, ctx, result, phase>>
    /\ UNCHANGED modelVars

\* a pipeline that expands the random variables before pruning self loops
AfterSyncExpand(at) ==
    CASE at = "loop" -> "sync"
      [] at = "sync" -> "expand"
      [] at = "expand" -> "prune"
      [] OTHER -> "return"

\* the statements after the loop, in program order: line 102, 103, 104, 105
AfterLoop(at) ==
    CASE at = "loop" -> "sync"
      [] at = "sync" -> "prune"
      [] at = "prune" -> "expand"
      [] OTHER -> "return"

\* the loop is exhausted
LoopEnds ==
    /\ pc.at = "loop" /\ pc.i > Len(scxmls)
    /\ pc' = At(AfterLoop("loop"), 0)
    /\ UNCHANGED <<scxmls, trace, base_model, returned, err>>
    /\ UNCHANGED <<heap, root, ctx, result, phase>>
    /\ UNCHANGED modelVars

\* implement_scxml_events_as_jani_syncs(events_holder, max_array_size, base_model)
SynthesizeSyncs ==
    /\ pc.at = "sync"
    /\ trace' = Append(trace, Call("implement_scxml_events_as_jani_syncs", 0, events_holder))
    /\ pc' = At(AfterLoop("sync"), 0)
    /\ UNCHANGED <<scxmls, base_model, returned, err>>
    /\ UNCHANGED <<heap, root, ctx, result, phase>>
    /\ UNCHANGED modelVars

\* remove_empty_self_loops_from_interface_handlers_in_jani(base_model)
PruneSelfLoops ==
    /\ pc.at = "prune"
    /\ trace' = Append(trace,
            Call("remove_empty_self_loops_from_interface_handlers_in_jani", 0, <<>>))
    /\ pc' = At(AfterLoop("prune"), 0)
    /\ UNCHANGED <<scxmls, base_model, returned, err>>
    /\ UNCHANGED <<heap, root, ctx, result, phase>>
    /\ UNCHANGED modelVars

\* expand_random_variables_in_jani_model(base_model, n_options=100)
ExpandRandom ==
    /\ pc.at = "expand"
    /\ trace' = Append(trace, Call("expand_random_variables_in_jani_model", 0, <<N_OPTIONS>>))
    /\ pc' = At(AfterLoop("expand"), 0)
    /\ UNCHANGED <<scxmls, base_model, returned, err>>
    /\ UNCHANGED <<heap, root, ctx, result, phase>>
    /\ UNCHANGED modelVars

\* return base_model
Return ==
    /\ pc.at = "return"
    /\ returned' = "model"
    /\ pc' = At("done", 0)
    /\ UNCHANGED <<scxmls, trace, base_model, err>>
    /\ UNCHANGED <<heap, root, ctx, result, phase>>
    /\ UNCHANGED modelVars

NextAsm ==
    \/ Construct
    \/ RejectNotPlain
    \/ Translate
    \/ TranslateFails
    \/ Fold
    \/ LoopEnds
    \/ SynthesizeSyncs
    \/ PruneSelfLoops
    \/ ExpandRandom
    \/ Return

SpecAsm == InitAsm /\ [][NextAsm]_vars

---------------------------------------------------------------------------
(* Claims checked under SpecAsm *)

\* the calls of a run over n inputs up to and including the fold of input n:
\* input i is converted against the registry holding inputs 1..i-1, then folded
RECURSIVE FoldCalls(_)
FoldCalls(n) ==
    IF n = 0 THEN <<>>
    ELSE FoldCalls(n - 1) \o
         << [call |-> "convert", input |-> n, arg |-> [j \in 1..(n - 1) |-> j]],
            [call |-> "add_jani_automaton", input |-> n, arg |-> <<>>] >>

\* the three passes, in order; synthesis is handed the registry of all n inputs
PassCalls(n) ==
    << [call |-> "implement_scxml_events_as_jani_syncs", input |-> 0,
        arg |-> [j \in 1..n |-> j]],
       [call |-> "remove_empty_self_loops_from_interface_handlers_in_jani", input |-> 0,
        arg |-> <<>>],
       [call |-> "expand_random_variables_in_jani_model", input |-> 0, arg |-> <<100>>] >>

IsPrefix(s, t) == Len(s) <= Len(t) /\ \A j \in DOMAIN s : s[j] = t[j]

AllInputsGood == \A i \in DOMAIN scxmls : scxmls[i].plain /\ scxmls[i].converts

\* C4: in a run that succeeds, the inputs are converted and folded one at a
\* time in the given order against the one registry (input i is folded before
\* input i+1 is converted); after the last fold the three passes run once
\* each, synchronization synthesis, then self-loop pruning, then random
\* expansion with 100 options; the model is returned only after the third.
C4_AssemblyOrder ==
    AllInputsGood =>
        /\ IsPrefix(trace, FoldCalls(Len(scxmls)) \o PassCalls(Len(scxmls)))
        /\ returned = "model" =>
              /\ trace = FoldCalls(Len(scxmls)) \o PassCalls(Len(scxmls))
              /\ base_model.automata = [j \in 1..Len(scxmls) |-> j]
        /\ pc.at = "done" => returned = "model"
        /\ pc.at # "raised"

\* a run over two inputs returned its model
C4_Witness ==
    /\ Len(scxmls) = 2 /\ AllInputsGood
    /\ pc.at = "done" /\ returned = "model" /\ Len(trace) = 7

IsBad(i) == ~scxmls[i].plain \/ ~scxmls[i].converts
HasBadInput == \E i \in DOMAIN scxmls : IsBad(i)
FirstBad == CHOOSE k \in DOMAIN scxmls : IsBad(k) /\ \A j \in 1..(k - 1) : ~IsBad(j)

\* C5: when input k is the first that is not plain or whose conversion fails,
\* the run stops at k: no later input is converted or folded, k is not
\* folded, none of the three passes runs and no model is returned; the error
\* raised is the assertion error for a non-plain input (which is not
\* converted) and otherwise the conversion's error, raised right after
\* log_error reported input k.
C5_AbortAtFirstFailure ==
    HasBadInput =>
        /\ returned = "nothing"
        /\ pc.at \notin {"sync", "prune", "expand", "return", "done"}
        /\ \A j \in DOMAIN trace :
              /\ trace[j].input \in 1..FirstBad
              /\ trace[j].input = FirstBad => trace[j].call \in {"convert", "log_error"}
        /\ IsPrefix(trace, FoldCalls(FirstBad - 1) \o
                << [call |-> "convert", input |-> FirstBad,
                    arg |-> [j \in 1..(FirstBad - 1) |-> j]],
                   [call |-> "log_error", input |-> FirstBad, arg |-> <<>>] >>)
        /\ pc.at = "raised" =>
              /\ pc.i = FirstBad
              /\ base_model.automata = [j \in 1..(FirstBad - 1) |-> j]
              /\ IF ~scxmls[FirstBad].plain
                 THEN err = "AssertionError" /\ trace = FoldCalls(FirstBad - 1)
                 ELSE /\ err = "TranslationError"
                      /\ Len(trace) = 2 * FirstBad
                      /\ trace[Len(trace)].call = "log_error"
        /\ err # NoError => pc.at = "raised"

\* the conversion of the second of three inputs failed after the first was folded
C5_Witness ==
    /\ Len(scxmls) = 3 /\ ~IsBad(1) /\ scxmls[2].plain /\ ~scxmls[2].converts
    /\ pc.at = "raised" /\ err = "TranslationError"
    /\ Len(trace) = 4 /\ trace[4].call = "log_error" /\ trace[4].input = 2

====
